---- MODULE Spec2Model ----
(***************************************************************************)
(* Session keep-alive client: the heartbeat scheduler (HeartbeatService),  *)
(* the response classifier of AuthService and the logout handling of App.  *)
(*                                                                         *)
(* JavaScript is single threaded: every handler runs to its next await.    *)
(* One action of this module is one such run: a timer callback, a DOM      *)
(* event handler, or the continuation of an async function after an await. *)
(***************************************************************************)
EXTENDS Integers, Sequences, FiniteSets, TLC

\* ---- bounds of the model --------------------------------------------------
MaxInFlight == 2    \* suspended sendHeartbeat() / processQueuedHeartbeats()
                    \* calls and pending timers of handleOnline held at once
MaxSessions == 2    \* sessions started during one page lifetime
MaxPulses   == 6    \* pulses ever put into the offline queue
MaxNow      == 3    \* last instant of the clock
MaxCount    == 4    \* logout notifications / teardowns counted per session
MaxPending  == 2    \* suspended handleAutoLogout / clearSession calls
Interval    == 2    \* HEARTBEAT_INTERVAL_MS, in clock instants
MaxRecorded == 6    \* attempts the rate limiter is given in one page lifetime
MaxSteps    == 2    \* steps of the rate limiter's clock

\* ---- program constants ----------------------------------------------------
QueueCapacity == 5

Max(a, b) == IF a >= b THEN a ELSE b

VARIABLES
  \* fields of the HeartbeatService singleton (0 / FALSE stand for null)
  isActive, sessionId, deviceId, onFailureCallback, lastHeartbeat, isOnline,
  queuedHeartbeats, timeoutId, isSending, nextScheduledAt,
  \* the browser around it
  now,              \* Date.now()
  netOnline,        \* navigator.onLine
  listening,        \* online/offline/visibilitychange listeners registered
  timers,           \* due times of the pending scheduleNextHeartbeat timeouts
  settleTimers,     \* pending setTimeout(..., 1000) of handleOnline
  storedLast,       \* localStorage 'heartbeat:last'
  currentLocation,  \* LocationService.currentLocation is set
  \* suspended async functions
  cycles,           \* sendHeartbeat() calls waiting at an await: how many
                    \* of each kind (promises settle in any order)
  flushes,          \* processQueuedHeartbeats() calls waiting for the response
  \* the host application (App) and its storage
  appPc,            \* initializeApp: "boot", "verifying", "ready"
  isLoggedIn,       \* React state isLoggedIn
  userSession,      \* localStorage 'userSession' (the saved session id)
  systemListeners,  \* setupSystemEventListeners has run
  pendingLogouts,   \* handleAutoLogout calls waiting for AuthService.logout
  pendingClears,    \* clearSession calls waiting for releaseWakeLock
  \* history
  verdicts,         \* who saw an Invalid response in the current session
  notifications,    \* showLogoutNotification calls in the current session
  teardowns,        \* clearSession calls in the current session
  nextSession,      \* next session id the server hands out
  pulseSeq,         \* pulses queued since the queue was last emptied
  ev,               \* what the last handler run did
  hist,             \* what happened since the last start() that took effect
  \* LocationService
  acq,              \* one forceUpdate() call: its closure, promise and timers
  once,             \* one getLocationOnce() call: its closure and timers
  \* utils/security
  limiter           \* the rateLimiter singleton and what it last returned

hbVars  == <<isActive, sessionId, deviceId, onFailureCallback, lastHeartbeat,
             isOnline, queuedHeartbeats, timeoutId, isSending, nextScheduledAt>>
envVars == <<now, netOnline, listening, timers, settleTimers, storedLast,
             currentLocation>>
runVars == <<cycles, flushes, nextSession, pulseSeq, ev, hist, acq, once,
            limiter>>
appVars == <<appPc, isLoggedIn, userSession, systemListeners, pendingLogouts,
             pendingClears, verdicts, notifications, teardowns>>
vars    == <<hbVars, envVars, runVars, appVars>>

\* ---- the state as one record, so that handlers compose --------------------
World ==
  [isActive |-> isActive, sessionId |-> sessionId, deviceId |-> deviceId,
   onFailureCallback |-> onFailureCallback, lastHeartbeat |-> lastHeartbeat,
   isOnline |-> isOnline, queuedHeartbeats |-> queuedHeartbeats,
   timeoutId |-> timeoutId, isSending |-> isSending,
   nextScheduledAt |-> nextScheduledAt,
   now |-> now, netOnline |-> netOnline, listening |-> listening,
   timers |-> timers, settleTimers |-> settleTimers, storedLast |-> storedLast,
   currentLocation |-> currentLocation,
   cycles |-> cycles, flushes |-> flushes,
   appPc |-> appPc, isLoggedIn |-> isLoggedIn, userSession |-> userSession,
   systemListeners |-> systemListeners, pendingLogouts |-> pendingLogouts,
   pendingClears |-> pendingClears, verdicts |-> verdicts,
   notifications |-> notifications, teardowns |-> teardowns,
   nextSession |-> nextSession, pulseSeq |-> pulseSeq, ev |-> ev,
   hist |-> hist, acq |-> acq, once |-> once, limiter |-> limiter]

Becomes(w) ==
  /\ isActive' = w.isActive
  /\ sessionId' = w.sessionId
  /\ deviceId' = w.deviceId
  /\ onFailureCallback' = w.onFailureCallback
  /\ lastHeartbeat' = w.lastHeartbeat
  /\ isOnline' = w.isOnline
  /\ queuedHeartbeats' = w.queuedHeartbeats
  /\ timeoutId' = w.timeoutId
  /\ isSending' = w.isSending
  /\ nextScheduledAt' = w.nextScheduledAt
  /\ now' = w.now
  /\ netOnline' = w.netOnline
  /\ listening' = w.listening
  /\ timers' = w.timers
  /\ settleTimers' = w.settleTimers
  /\ storedLast' = w.storedLast
  /\ currentLocation' = w.currentLocation
  /\ cycles' = w.cycles
  /\ flushes' = w.flushes
  /\ appPc' = w.appPc
  /\ isLoggedIn' = w.isLoggedIn
  /\ userSession' = w.userSession
  /\ systemListeners' = w.systemListeners
  /\ pendingLogouts' = w.pendingLogouts
  /\ pendingClears' = w.pendingClears
  /\ verdicts' = w.verdicts
  /\ notifications' = w.notifications
  /\ teardowns' = w.teardowns
  /\ nextSession' = w.nextSession
  /\ pulseSeq' = w.pulseSeq
  /\ ev' = w.ev
  /\ hist' = w.hist
  /\ limiter' = w.limiter
  /\ once' = w.once
  /\ acq' = w.acq

\* ---- what one handler run did ---------------------------------------------
\* A suspended sendHeartbeat() call waits for its location ("locating") or
\* for the response ("sending"); stopped: stop() ran since it began.
CycleKinds == [pc : {"locating", "sending"}, stopped : BOOLEAN]
Kind(pc, stopped) == [pc |-> pc, stopped |-> stopped]
NoCycle == Kind("idle", FALSE)
Count(cs) ==
  cs[Kind("locating", FALSE)] + cs[Kind("locating", TRUE)]
    + cs[Kind("sending", FALSE)] + cs[Kind("sending", TRUE)]

\* tx: calls of AuthService.sendHeartbeat, in order; cb: invocations of the
\* callback passed to start(); fail / succ: dispatches of heartbeat:failure /
\* heartbeat:success; armed: scheduleNextHeartbeat set a timer; resp: the
\* heartbeat result handled; cyc: the send cycle that was resumed (as it was
\* when its continuation began), loc: the location it went on with.
\* call / http: the API call whose HTTP outcome was handled and that outcome;
\* dispatched: the sources of the forceLogout events dispatched; logouts:
\* handleAutoLogout calls; removed: 'userSession' was removed from storage;
\* cancelled: a pending timeout of scheduleNextHeartbeat was cleared;
\* op: "start" when the host called start(), "settle" when the timeout of
\* handleOnline ran, "timer" when the timeout of scheduleNextHeartbeat ran.
NoResponse == [body |-> "none", ok |-> "absent", login_status |-> "absent"]

NoBody == [present |-> FALSE, login_status |-> "absent",
           force_logout |-> "absent", ok |-> "absent", error |-> FALSE]
NoHttp == [kind |-> "none", status |-> 0, data |-> NoBody]

Event ==
  [tx |-> <<>>, cb |-> 0, fail |-> 0, succ |-> 0, armed |-> FALSE,
   resp |-> NoResponse, cyc |-> NoCycle, loc |-> "none",
   call |-> "none", http |-> NoHttp, dispatched |-> <<>>, logouts |-> 0,
   removed |-> FALSE, op |-> "none", cancelled |-> FALSE]

\* successAt: when handleHeartbeatSuccess last ran (0: not yet); restoredAt /
\* since: the session was restored at that instant, and the server reported
\* that its last heartbeat was that long ago (0: the session began with a
\* login); arms: timers armed by scheduleNextHeartbeat in a restored session
\* (2: two or more)
NoHistory == [successAt |-> 0, arms |-> 0, restoredAt |-> 0, since |-> 0]

Begin == [World EXCEPT !.ev = Event]

\* ---- HeartbeatService -----------------------------------------------------
DropLast(s) == SubSeq(s, 1, Len(s) - 1)

\* the handle is forgotten and the timeout is left pending
clearScheduledTimer_forget(w) ==
  IF w.timeoutId
    THEN [w EXCEPT !.timeoutId = FALSE, !.nextScheduledAt = 0,
                   !.ev.cancelled = TRUE]
    ELSE w

clearScheduledTimer(w) ==
  IF w.timeoutId
    THEN [w EXCEPT !.timers = DropLast(@), !.timeoutId = FALSE,
                   !.nextScheduledAt = 0, !.ev.cancelled = TRUE]
    ELSE w

MarkStopped(w) ==
  [w EXCEPT !.cycles = [c \in CycleKinds |->
      IF c.stopped THEN w.cycles[c] + w.cycles[Kind(c.pc, FALSE)] ELSE 0]]

stop(w) ==
  IF ~w.isActive
    THEN MarkStopped(w)
    ELSE LET w1 == [MarkStopped(w) EXCEPT
                      !.isActive = FALSE, !.sessionId = 0, !.deviceId = 0,
                      !.onFailureCallback = 0, !.queuedHeartbeats = <<>>,
                      !.pulseSeq = 0]
         IN [clearScheduledTimer(w1) EXCEPT !.listening = FALSE]

scheduleNextHeartbeat(w) ==
  LET w1 == clearScheduledTimer(w)
  IN IF ~w1.isActive
       THEN w1
       ELSE LET next  == IF w1.lastHeartbeat # 0
                           THEN w1.lastHeartbeat + Interval
                           ELSE w1.now + Interval
                delay == IF w1.lastHeartbeat # 0
                           THEN Max(0, next - w1.now)
                           ELSE Interval
            IN [w1 EXCEPT !.nextScheduledAt = next,
                          !.timers = Append(@, w1.now + delay),
                          !.timeoutId = TRUE,
                          !.hist.arms = IF w.hist.since # 0 /\ @ < 2
                                          THEN @ + 1 ELSE @,
                          !.ev.armed = TRUE]

\* the finally block of sendHeartbeat
sendFinally(w) ==
  LET w1 == [w EXCEPT !.isSending = FALSE]
  IN IF w1.isActive THEN scheduleNextHeartbeat(w1) ELSE w1

Initialized(w) == w.isActive /\ w.sessionId # 0 /\ w.deviceId # 0

\* sendHeartbeat() up to its first await
sendHeartbeat(w) ==
  IF ~Initialized(w)
    THEN w
    ELSE IF w.isSending
      THEN sendFinally(w)
      ELSE [w EXCEPT !.isSending = TRUE,
                     !.cycles[Kind("locating", FALSE)] = @ + 1]

\* the suspended calls and pending timers of w are within the bound
Pending(w) == Count(w.cycles) + w.flushes + w.settleTimers
Fits(w) == Pending(w) <= MaxInFlight

\* a call of AuthService.sendHeartbeat(sid, dev, location); seq is the queued
\* pulse it carries (0: a fresh pulse), active and current are isActive and
\* this.sessionId at the call
Transmit(w, sid, dev, seq) ==
  [w EXCEPT !.ev.tx = Append(@, [sessionId |-> sid, deviceId |-> dev,
                                 seq |-> seq, active |-> w.isActive,
                                 current |-> w.sessionId])]

\* processQueuedHeartbeats() up to its await
processQueuedHeartbeats_oldest(w) ==
  IF Len(w.queuedHeartbeats) = 0
    THEN w
    ELSE LET latestHeartbeat == w.queuedHeartbeats[1]
         IN [Transmit(w, latestHeartbeat.sessionId,
                      latestHeartbeat.deviceId, latestHeartbeat.seq)
               EXCEPT !.flushes = @ + 1]

processQueuedHeartbeats(w) ==
  IF Len(w.queuedHeartbeats) = 0
    THEN w
    ELSE LET latestHeartbeat == w.queuedHeartbeats[Len(w.queuedHeartbeats)]
         IN [Transmit(w, latestHeartbeat.sessionId,
                      latestHeartbeat.deviceId, latestHeartbeat.seq)
               EXCEPT !.flushes = @ + 1]

LastN(s, n) == IF Len(s) > n THEN SubSeq(s, Len(s) - n + 1, Len(s)) ELSE s

\* the pulse's timestamp and location are stood for by seq, its number
queueHeartbeat_keepFirst(w) ==
  LET heartbeat == [seq |-> w.pulseSeq + 1,
                    sessionId |-> w.sessionId, deviceId |-> w.deviceId]
      pushed == Append(w.queuedHeartbeats, heartbeat)
  IN [w EXCEPT !.pulseSeq = @ + 1,
               !.queuedHeartbeats = IF Len(pushed) > QueueCapacity
                                      THEN SubSeq(pushed, 1, QueueCapacity)
                                      ELSE pushed]

queueHeartbeat(w) ==
  LET heartbeat == [seq |-> w.pulseSeq + 1,
                    sessionId |-> w.sessionId, deviceId |-> w.deviceId]
      pushed == Append(w.queuedHeartbeats, heartbeat)
  IN [w EXCEPT !.pulseSeq = @ + 1,
               !.queuedHeartbeats = IF Len(pushed) > QueueCapacity
                                      THEN LastN(pushed, QueueCapacity)
                                      ELSE pushed]

InvokeCallback(w) ==
  IF w.onFailureCallback # 0 THEN [w EXCEPT !.ev.cb = @ + 1] ELSE w

handleHeartbeatSuccess(w) ==
  LET w1 == [w EXCEPT !.lastHeartbeat = w.now, !.storedLast = w.now,
                      !.ev.succ = @ + 1, !.hist.successAt = w.now]
  IN IF Len(w1.queuedHeartbeats) > 0 THEN processQueuedHeartbeats(w1) ELSE w1

\* handleHeartbeatFailure(reason) without its call of stop()
handleHeartbeatFailure_noStop(w) ==
  [InvokeCallback(w) EXCEPT !.ev.fail = @ + 1]

handleHeartbeatFailure(w) ==
  [InvokeCallback(stop(w)) EXCEPT !.ev.fail = @ + 1]

\* ---- LocationService.forceUpdate ----------------------------------------------
\* A fix is known by its accuracy (metres) and the elapsed time (ms) at which
\* the platform delivered it; "earlier" is a fix cached before this call.
NoFix == [acc |-> 0, at |-> 0, from |-> "none"]
EarlierFix == [acc |-> 0, at |-> 0, from |-> "earlier"]
Reading(acc, at) == [acc |-> acc, at |-> at, from |-> "reading"]

\* pc: the promise ("idle": forceUpdate not called yet); elapsed: Date.now() -
\* startTime; watching: the watchPosition subscription is open; timer: the
\* setTimeout fallback is pending; bestPosition: null is NoFix, and then
\* bestAccuracy is Infinity; cached: this.currentLocation; fix: what the promise
\* resolved with; leak: the subscription was open when the promise settled;
\* step / last: the callback that ran last and the reading it was given;
\* by: the callback that settled the promise; notified: the callback that ran
\* last invoked updateCallback.
NoAcquisition ==
  [pc |-> "idle", elapsed |-> 0, watching |-> FALSE, timer |-> FALSE,
   bestPosition |-> NoFix, cached |-> NoFix, fix |-> NoFix, leak |-> FALSE,
   step |-> "none", last |-> NoFix, by |-> "none", notified |-> FALSE]

\* ---- LocationService.getLocationOnce ---------------------------------------
\* pc: "idle" (not called yet), "unsupported", "waiting" (the 30 s timer is
\* pending), "over" (its callback has run); elapsed: Date.now() - startTime;
\* watching: the watchPosition subscription is open; timer: the setTimeout is
\* pending; arrived: the platform delivered a reading during the wait; last:
\* the most recent reading delivered; requests: getCurrentPosition calls
\* made; oneShot: such a call is unanswered; errors: handleError calls;
\* step: the callback that ran last.  this.currentLocation is acq.cached.
NoOnce ==
  [pc |-> "idle", elapsed |-> 0, watching |-> FALSE, timer |-> FALSE,
   arrived |-> FALSE, last |-> NoFix, requests |-> 0, oneShot |-> FALSE,
   errors |-> 0, step |-> "none"]

\* ---- RateLimiter (utils/security.js) ---------------------------------------
maxAttempts == 5
windowMs == 900000
ClockStep == 450000        \* the clock moves by half a window
FirstInstant == 1000000    \* Date.now() when the page is loaded
LimitActions == {"login", "unlock"}

\* what the last call returned; resetTime 0 stands for null
NoVerdict ==
  [op |-> "none", action |-> "none", allowed |-> TRUE, remainingAttempts |-> 0,
   resetTime |-> 0]

\* attempts: this.attempts; log: every attempt recorded within the window and
\* not reset, whatever the limiter did with it
NoLimiter ==
  [attempts |-> <<>>, log |-> <<>>, now |-> FirstInstant, res |-> NoVerdict]

checkLimit(l, action) ==
  LET windowStart == l.now - windowMs
      kept == SelectSeq(l.attempts,
                LAMBDA attempt : /\ attempt.timestamp > windowStart
                                 /\ attempt.action = action)
      remainingAttempts == maxAttempts - Len(kept)
  IN [l EXCEPT
        !.attempts = kept,
        !.res = IF Len(kept) >= maxAttempts
                  THEN [op |-> "check", action |-> action, allowed |-> FALSE,
                        remainingAttempts |-> 0,
                        resetTime |-> kept[1].timestamp + windowMs]
                  ELSE [op |-> "check", action |-> action, allowed |-> TRUE,
                        remainingAttempts |-> remainingAttempts,
                        resetTime |-> 0]]

recordAttempt(l, action) ==
  [l EXCEPT !.attempts = Append(@, [action |-> action, timestamp |-> l.now]),
            !.res = [NoVerdict EXCEPT !.op = "record", !.action = action]]

reset(l, action) ==
  [l EXCEPT !.attempts = SelectSeq(@, LAMBDA attempt : attempt.action # action),
            !.res = [NoVerdict EXCEPT !.op = "reset", !.action = action]]

InitService ==
  /\ isActive = FALSE /\ sessionId = 0 /\ deviceId = 0
  /\ onFailureCallback = 0 /\ lastHeartbeat = 0
  /\ netOnline \in BOOLEAN /\ isOnline = netOnline
  /\ queuedHeartbeats = <<>> /\ timeoutId = FALSE /\ isSending = FALSE
  /\ nextScheduledAt = 0
  /\ now = 1 /\ listening = FALSE /\ timers = <<>> /\ settleTimers = 0
  /\ storedLast \in {0, 1}
  /\ currentLocation \in BOOLEAN
  /\ cycles = [c \in CycleKinds |-> 0]
  /\ flushes = 0
  /\ pulseSeq = 0
  /\ hist = NoHistory
  /\ acq = [NoAcquisition EXCEPT
              !.cached = IF currentLocation THEN EarlierFix ELSE NoFix]
  /\ limiter = NoLimiter
  /\ once = NoOnce

\* the page has just been loaded; saved is the session id left in storage
InitApp(saved) ==
  /\ appPc = "boot" /\ isLoggedIn = FALSE /\ userSession = saved
  /\ systemListeners = FALSE /\ pendingLogouts = 0 /\ pendingClears = 0
  /\ verdicts = {} /\ notifications = 0 /\ teardowns = 0
  /\ nextSession = saved + 1

Init == InitService /\ InitApp(0) /\ ev = Event

\* ---- handlers ---------------------------------------------------------------
\* start() without its first statement
start_unguarded(w, sid) ==
  LET w1 == [w EXCEPT !.sessionId = sid, !.deviceId = 1,
                      !.onFailureCallback = sid, !.isActive = TRUE,
                      !.hist = NoHistory,
                      !.lastHeartbeat = IF w.storedLast # 0
                                          THEN w.storedLast ELSE @]
  IN [sendHeartbeat(w1) EXCEPT !.listening = TRUE]

\* start(sessionId, deviceId, onFailure); the callback is the closure the host
\* made for this session
start(w, sid) ==
  IF w.isActive
    THEN w
    ELSE LET w1 == [w EXCEPT !.sessionId = sid, !.deviceId = 1,
                             !.onFailureCallback = sid, !.isActive = TRUE,
                             !.hist = NoHistory,
                             !.lastHeartbeat = IF w.storedLast # 0
                                                 THEN w.storedLast ELSE @]
         IN [sendHeartbeat(w1) EXCEPT !.listening = TRUE]

StartCall ==
  /\ nextSession <= MaxSessions
  /\ LET w  == [Begin EXCEPT !.ev.op = "start"]
         w1 == [start(w, nextSession) EXCEPT
                  !.nextSession = IF w.isActive THEN @ ELSE @ + 1]
     IN Fits(w1) /\ Becomes(w1)

StopCall ==
  /\ Becomes(stop(Begin))

\* the callback of the timeout armed by scheduleNextHeartbeat
RemoveAt(s, k) == SubSeq(s, 1, k - 1) \o SubSeq(s, k + 1, Len(s))

TimerFire ==
  \E k \in DOMAIN timers :
    /\ timers[k] <= now
    /\ LET w  == Begin
           w1 == [w EXCEPT !.timers = RemoveAt(@, k), !.timeoutId = FALSE,
                           !.nextScheduledAt = 0, !.ev.op = "timer"]
           w2 == IF w1.isActive THEN sendHeartbeat(w1) ELSE w1
       IN Fits(w2) /\ Becomes(w2)

forceHeartbeat(w) == IF w.isActive THEN sendHeartbeat(w) ELSE w

ForceHeartbeat ==
  LET w == forceHeartbeat(Begin)
  IN Fits(w) /\ Becomes(w)

\* document becomes visible while the visibilitychange listener is registered
VisibilityVisible ==
  /\ listening
  /\ LET w == sendHeartbeat(processQueuedHeartbeats(Begin))
     IN Fits(w) /\ Becomes(w)

\* handleOnline without its setTimeout: flush and heartbeat at once
handleOnline_noDelay(w) ==
  sendHeartbeat(processQueuedHeartbeats([w EXCEPT !.isOnline = TRUE]))

handleOnline(w) == [w EXCEPT !.isOnline = TRUE, !.settleTimers = @ + 1]
handleOffline(w) == [w EXCEPT !.isOnline = FALSE]

NetOnline ==
  /\ ~netOnline
  /\ LET w  == [Begin EXCEPT !.netOnline = TRUE]
         w1 == IF w.listening THEN handleOnline(w) ELSE w
     IN Fits(w1) /\ Becomes(w1)

NetOffline ==
  /\ netOnline
  /\ LET w == [Begin EXCEPT !.netOnline = FALSE]
     IN Becomes(IF w.listening THEN handleOffline(w) ELSE w)

\* the timeout of handleOnline, one second after the online event
SettleFire ==
  /\ settleTimers > 0
  /\ LET w  == [Begin EXCEPT !.settleTimers = @ - 1, !.ev.op = "settle"]
         w1 == sendHeartbeat(processQueuedHeartbeats(w))
     IN Fits(w1) /\ Becomes(w1)

\* LocationService.forceUpdate() settles: resolved with a fix (which is then
\* also the cached fix) or rejected
Outcomes == {"resolve", "reject"}

\* sendHeartbeat() after forceUpdate() without the isOnline test
afterLocation_alwaysSend(w, c, outcome) ==
  LET location == IF outcome = "resolve" THEN "fresh"
                  ELSE IF w.currentLocation THEN "cached" ELSE "none"
      w1 == [w EXCEPT !.cycles[c] = @ - 1, !.ev.cyc = c,
                      !.ev.loc = location,
                      !.currentLocation = IF outcome = "resolve" THEN TRUE ELSE @,
                      !.acq.cached = IF outcome = "resolve" THEN EarlierFix ELSE @]
  IN IF location = "none"
       THEN sendFinally(handleHeartbeatFailure(w1))
       ELSE [Transmit(w1, w1.sessionId, w1.deviceId, 0)
               EXCEPT !.cycles[Kind("sending", c.stopped)] = @ + 1]

\* sendHeartbeat() from the point where forceUpdate() settles to the next await
\* or to the end
afterLocation(w, c, outcome) ==
  LET location == IF outcome = "resolve" THEN "fresh"
                  ELSE IF w.currentLocation THEN "cached" ELSE "none"
      w1 == [w EXCEPT !.cycles[c] = @ - 1, !.ev.cyc = c,
                      !.ev.loc = location,
                      !.currentLocation = IF outcome = "resolve" THEN TRUE ELSE @,
                      !.acq.cached = IF outcome = "resolve" THEN EarlierFix ELSE @]
  IN IF location = "none"
       THEN sendFinally(handleHeartbeatFailure(w1))
       ELSE IF ~w1.isOnline
         THEN sendFinally(queueHeartbeat(w1))
         ELSE [Transmit(w1, w1.sessionId, w1.deviceId, 0)
                 EXCEPT !.cycles[Kind("sending", c.stopped)] = @ + 1]

LocationDone ==
  \E c \in CycleKinds, outcome \in Outcomes :
    /\ c.pc = "locating" /\ cycles[c] > 0
    /\ (~isOnline /\ (outcome = "resolve" \/ currentLocation))
          => pulseSeq < MaxPulses
    /\ Becomes(afterLocation(Begin, c, outcome))

\* what AuthService.sendHeartbeat resolves with, as sendHeartbeat reads it:
\* a body "null" has no fields (reading response.ok throws), an "object" has ok
\* and login_status "true", "false" or "absent"
Flag == {"true", "false", "absent"}
Results ==
  {[body |-> "null", ok |-> "absent", login_status |-> "absent"]}
    \cup [body : {"object"}, ok : Flag, login_status : Flag]

afterResponse(w, c, response) ==
  LET w1 == [w EXCEPT !.cycles[c] = @ - 1, !.ev.cyc = c,
                      !.ev.resp = response]
  IN IF response.body = "null"
       THEN sendFinally(handleHeartbeatFailure(w1))
       ELSE IF response.login_status = "false"
         THEN sendFinally([InvokeCallback(stop(w1)) EXCEPT
                             !.isSending = FALSE, !.ev.fail = @ + 1])
         ELSE IF response.ok = "true"
           THEN sendFinally(handleHeartbeatSuccess(w1))
           ELSE sendFinally([InvokeCallback(stop(w1)) EXCEPT
                               !.isSending = FALSE, !.ev.fail = @ + 1])

ResponseArrive ==
  \E c \in CycleKinds, response \in Results :
    /\ c.pc = "sending" /\ cycles[c] > 0
    /\ Becomes(afterResponse(Begin, c, response))

\* processQueuedHeartbeats() after its await: the response is only logged and
\* the queue is cleared
flushed(w, response) ==
  [w EXCEPT !.flushes = @ - 1, !.queuedHeartbeats = <<>>, !.pulseSeq = 0]

FlushDone ==
  \E response \in Results :
    /\ flushes > 0
    /\ Becomes(flushed(Begin, response))

Tick ==
  /\ now < MaxNow
  /\ Becomes([Begin EXCEPT !.now = @ + 1])

Next ==
  \/ StartCall
  \/ StopCall
  \/ TimerFire
  \/ ForceHeartbeat
  \/ VisibilityVisible
  \/ NetOnline
  \/ NetOffline
  \/ SettleFire
  \/ LocationDone
  \/ ResponseArrive
  \/ FlushDone
  \/ Tick

Spec == Init /\ [][Next]_vars

\* timeouts that are due run, and the clock goes on
SpecLive == Spec /\ WF_vars(TimerFire) /\ WF_vars(Tick)

\* ---- AuthService ------------------------------------------------------------
\* An HTTP outcome: no response at all, or a status with a body.  Of the body
\* the fields the client reads: login_status ("zero": a falsy value that is not
\* false), force_logout ("one": a truthy value that is not true), ok, and
\* whether it has an error field.
LoginStatus == {"false", "true", "absent", "zero"}
ForceLogout == {"true", "absent", "one"}
Statuses    == {200, 400, 401, 403, 419, 440, 500}
Bodies ==
  {NoBody} \cup [present : {TRUE}, login_status : LoginStatus,
                 force_logout : ForceLogout, ok : Flag, error : BOOLEAN]
HttpOutcomes ==
  {[kind |-> "noresponse", status |-> 0, data |-> NoBody]}
    \cup [kind : {"response"}, status : Statuses, data : Bodies]

\* the outcomes the application as a whole is run against: answered or not,
\* accepted or refused, with or without the server's login_status:false
AppOutcomes ==
  {h \in HttpOutcomes :
     /\ h.status \in {0, 200, 401, 500}
     /\ h.data.force_logout = "absent" /\ ~h.data.error
     /\ h.data.login_status \in {"false", "absent"}
     /\ h.data.present => h.data.ok # "absent"}

\* axios resolves 2xx and rejects everything else (no validateStatus is set)
IsSuccess(http) ==
  http.kind = "response" /\ http.status >= 200 /\ http.status < 300

ForceLogoutStatuses_short == {401, 403}

ForceLogoutStatuses == {401, 403, 419, 440}

\* the response interceptor: the sources of the forceLogout events it dispatches
responseInterceptor(http) ==
  IF IsSuccess(http)
    THEN IF http.data.present /\ http.data.login_status = "false"
           THEN <<"api_interceptor">>
           ELSE IF http.data.login_status = "false"
                     \/ http.data.force_logout = "true"
                  THEN <<"api_response_force">>
                  ELSE <<>>
    ELSE (IF http.kind = "response" /\ http.data.login_status = "false"
            THEN <<"api_interceptor_error">> ELSE <<>>)
         \o (IF \/ http.data.login_status = "false"
                \/ http.data.force_logout = "true"
                \/ http.status \in ForceLogoutStatuses
               THEN <<"api_interceptor_error_force">> ELSE <<>>)

\* a body as the callers read it: only === false / === true are tested
AsResult(data) ==
  [body |-> "object", ok |-> data.ok,
   login_status |-> IF data.login_status = "zero" THEN "absent"
                                                   ELSE data.login_status]

NotOk == [body |-> "object", ok |-> "false", login_status |-> "absent"]

handleError(http) ==
  IF http.kind = "response"
       /\ http.data.present /\ (http.data.ok # "absent" \/ http.data.error)
    THEN AsResult(http.data)
    ELSE NotOk

\* what login() and sendHeartbeat() resolve with
apiResult(http) ==
  IF IsSuccess(http)
    THEN IF http.data.present
           THEN AsResult(http.data)
           ELSE [body |-> "null", ok |-> "absent", login_status |-> "absent"]
    ELSE handleError(http)

\* verifySession(): valid only for a 2xx response whose body has ok === true
verifySession(http) ==
  IsSuccess(http) /\ http.data.present /\ http.data.ok = "true"

\* ---- App --------------------------------------------------------------------
showLogoutNotification(w) == [w EXCEPT !.notifications = @ + 1]

\* clearSession() up to its await
clearSession(w) ==
  [stop(w) EXCEPT !.teardowns = @ + 1, !.pendingClears = @ + 1]

\* handleAutoLogout(reason) up to its first await; closureSessionId is the
\* sessionId state captured by the closure that is called
handleAutoLogout(w, closureSessionId) ==
  LET w1 == [showLogoutNotification(w) EXCEPT !.ev.logouts = @ + 1]
  IN IF closureSessionId # 0
       THEN [w1 EXCEPT !.pendingLogouts = @ + 1]
       ELSE clearSession(w1)

\* The listeners of setupSystemEventListeners and the callbacks given to
\* start() are made where sessionId is still '' (the first render, or a render
\* of the login screen).
staleAutoLogout(w) == handleAutoLogout(w, 0)

onForceLogout(w) ==
  IF w.systemListeners
    THEN staleAutoLogout(showLogoutNotification(w))
    ELSE w

onHeartbeatFailure(w) ==
  IF w.systemListeners THEN staleAutoLogout(w) ELSE w

\* an HTTP outcome passes the interceptor; window.dispatchEvent runs the
\* listeners before it returns
Intercept(w, call, http) ==
  LET sources == responseInterceptor(http)
      w1 == [w EXCEPT !.ev.call = call, !.ev.http = http,
                      !.ev.dispatched = sources]
  IN IF Len(sources) = 0 THEN w1
     ELSE IF Len(sources) = 1 THEN onForceLogout(w1)
     ELSE onForceLogout(onForceLogout(w1))

\* what the host does with the callback invocation and the heartbeat:failure
\* event of a send cycle (a cycle makes at most one of each)
HostEvents(w) ==
  LET w1 == IF w.ev.cb > 0 THEN staleAutoLogout(w) ELSE w
  IN IF w1.ev.fail > 0 THEN onHeartbeatFailure(w1) ELSE w1

Capped(w) ==
  /\ w.notifications <= MaxCount /\ w.teardowns <= MaxCount
  /\ w.pendingLogouts <= MaxPending /\ w.pendingClears <= MaxPending

\* an Invalid verdict of the session-authority layer
IsInvalid(http) ==
  /\ http.kind = "response"
  /\ \/ http.data.login_status = "false"
     \/ http.data.force_logout = "true"
     \/ http.status \in ForceLogoutStatuses

Saw(w, who, http) ==
  IF IsInvalid(http) /\ w.isLoggedIn
    THEN [w EXCEPT !.verdicts = @ \cup {who}] ELSE w

\* the session sid becomes the session of the page
establish(w, sid) ==
  LET w1 == [w EXCEPT !.isLoggedIn = TRUE, !.userSession = sid,
                      !.verdicts = {}, !.notifications = 0, !.teardowns = 0]
  IN start(w1, sid)

setupSystemEventListeners(w) ==
  [w EXCEPT !.systemListeners = TRUE, !.appPc = "ready"]

\* initializeApp() up to the verifySession call
InitializeApp ==
  /\ appPc = "boot"
  /\ Becomes(IF userSession # 0
               THEN [Begin EXCEPT !.appPc = "verifying"]
               ELSE setupSystemEventListeners(Begin))

\* initializeApp() from the outcome of verifySession on; since is the
\* timeSinceLastHeartbeatMs of a valid session (used for the countdown shown)
VerifyResponse ==
  \E http \in AppOutcomes, since \in 1..(Interval - 1) :
    /\ appPc = "verifying"
    /\ LET w  == Intercept(Begin, "verify", http)
           w1 == IF verifySession(http)
                   THEN [establish(w, w.userSession) EXCEPT
                           !.hist.restoredAt = w.now, !.hist.since = since]
                   ELSE [w EXCEPT !.userSession = 0, !.ev.removed = TRUE]
       IN /\ Capped(w1) /\ Fits(w1)
          /\ Becomes(setupSystemEventListeners(w1))

\* handleLogin() from the outcome of the login call on
LoginResponse ==
  \E http \in AppOutcomes :
    /\ appPc = "ready" /\ ~isLoggedIn /\ nextSession <= MaxSessions
    /\ LET w  == Intercept(Begin, "login", http)
           ok == apiResult(http).ok = "true"
           w1 == IF ok
                   THEN [establish(w, w.nextSession) EXCEPT !.nextSession = @ + 1]
                   ELSE w
       IN /\ Capped(w1) /\ Fits(w1)
          /\ Becomes(w1)

\* the outcome of any other API call, made anywhere in the application
ApiResponse ==
  \E http \in AppOutcomes :
    /\ appPc = "ready"
    /\ LET w == Intercept(Saw(Begin, "api", http), "api", http)
       IN Capped(w) /\ Becomes(w)

\* a send cycle resumes after location acquisition, in the application
AppLocationDone ==
  \E c \in CycleKinds, outcome \in Outcomes :
    /\ c.pc = "locating" /\ cycles[c] > 0
    /\ (~isOnline /\ (outcome = "resolve" \/ currentLocation))
          => pulseSeq < MaxPulses
    /\ LET w == HostEvents(afterLocation(Begin, c, outcome))
       IN Capped(w) /\ Becomes(w)

\* the outcome of the heartbeat call: the interceptor, then sendHeartbeat
HeartbeatResponse ==
  \E c \in CycleKinds, http \in AppOutcomes :
    /\ c.pc = "sending" /\ cycles[c] > 0
    /\ LET w0 == Intercept(Saw(Begin, "heartbeat", http), "heartbeat", http)
           w  == HostEvents(afterResponse(w0, c, apiResult(http)))
       IN Capped(w) /\ Becomes(w)

\* handleExtendSession() from the outcome of verifySession on
ExtendSession ==
  \E http \in AppOutcomes :
    /\ appPc = "ready" /\ isLoggedIn
    /\ LET w0 == Intercept(Saw(Begin, "api", http), "extend", http)
           w  == IF verifySession(http)
                   THEN w0
                   ELSE handleAutoLogout(showLogoutNotification(w0),
                          IF w0.isLoggedIn THEN w0.userSession ELSE 0)
       IN Capped(w) /\ Becomes(w)

\* handleAutoLogout() from the outcome of the logout call on
LogoutResponse ==
  \E http \in AppOutcomes :
    /\ pendingLogouts > 0
    /\ LET w0 == Intercept(Begin, "logout", http)
           w  == clearSession([w0 EXCEPT !.pendingLogouts = @ - 1])
       IN Capped(w) /\ Becomes(w)

\* clearSession() after its await
ClearSessionResume ==
  /\ pendingClears > 0
  /\ Becomes([Begin EXCEPT !.pendingClears = @ - 1, !.userSession = 0,
                           !.isLoggedIn = FALSE, !.ev.removed = TRUE])

NextAuth ==
  \/ InitializeApp
  \/ VerifyResponse
  \/ LoginResponse
  \/ ApiResponse
  \/ AppLocationDone
  \/ HeartbeatResponse
  \/ ExtendSession
  \/ LogoutResponse
  \/ ClearSessionResume

InitAuth == InitService /\ ev = Event /\ \E saved \in {0, 1} : InitApp(saved)

SpecAuth == InitAuth /\ [][NextAuth]_vars

\* the interceptor alone, on every HTTP outcome
Classify ==
  /\ ev.call = "none"
  /\ Becomes(Intercept(World, "api", ev.http))

InitClassify ==
  /\ InitService /\ InitApp(0)
  /\ \E http \in HttpOutcomes : ev = [Event EXCEPT !.http = http]

SpecClassify == InitClassify /\ [][Classify]_vars

\* ---- LocationService.forceUpdate, its callbacks --------------------------------
ExcellentAccuracy  == 30
GoodAccuracy       == 50
AcceptableAccuracy == 100
GoodAfterMs        == 10000
HardTimeoutMs      == 30000

\* the accuracies the platform reports and the instants at which anything happens
Accuracies == {29, 30, 40, 49, 50, 99, 100, 600}
Instants   == {0, 2000, 5000, 10000, 10001, 30000, 30001, 30002}
LastInstant == CHOOSE t \in Instants : \A u \in Instants : u <= t

clearWatch(w) == [w EXCEPT !.acq.watching = FALSE]

handlePosition_keep(w, position) ==
  [w EXCEPT !.currentLocation = TRUE, !.acq.notified = TRUE,
            !.acq.cached = IF @ = NoFix THEN position ELSE @]

handlePosition(w, position) ==
  [w EXCEPT !.currentLocation = TRUE, !.acq.cached = position,
            !.acq.notified = TRUE]

\* resolve(this.currentLocation) / reject(error): no effect on a settled promise
resolve(w) ==
  IF w.acq.pc = "pending"
    THEN [w EXCEPT !.acq.pc = "resolved", !.acq.fix = w.acq.cached,
                   !.acq.leak = w.acq.watching, !.acq.by = w.acq.step]
    ELSE w

reject(w) ==
  IF w.acq.pc = "pending"
    THEN [w EXCEPT !.acq.pc = "rejected", !.acq.leak = w.acq.watching,
                   !.acq.by = w.acq.step]
    ELSE w

\* forceUpdate() itself: the promise executor
forceUpdate(w, supported) ==
  LET w1 == [w EXCEPT !.acq.pc = "pending", !.acq.step = "call",
                      !.acq.notified = FALSE]
  IN IF ~supported
       THEN reject(w1)
       ELSE [w1 EXCEPT !.acq.watching = TRUE, !.acq.timer = TRUE]

accept(w, position) == resolve(handlePosition(clearWatch(w), position))

\* the success callback of watchPosition
watchPositionSuccess(w, acc) ==
  LET elapsed  == w.acq.elapsed
      position == Reading(acc, elapsed)
      better   == w.acq.bestPosition = NoFix \/ acc < w.acq.bestPosition.acc
      w1 == [w EXCEPT !.acq.step = "reading", !.acq.notified = FALSE,
                      !.acq.last = position,
                      !.acq.bestPosition = IF better THEN position ELSE @]
  IN IF acc < ExcellentAccuracy
       THEN accept(w1, position)
     ELSE IF acc < GoodAccuracy /\ elapsed > GoodAfterMs
       THEN accept(w1, position)
     ELSE IF acc < AcceptableAccuracy /\ elapsed > HardTimeoutMs
       THEN accept(w1, position)
     ELSE IF elapsed > HardTimeoutMs
       THEN IF w1.acq.bestPosition # NoFix
              THEN accept(w1, w1.acq.bestPosition)
              ELSE reject(clearWatch(w1))
     ELSE w1

\* the error callback of watchPosition
watchPositionError_noClear(w) ==
  reject([w EXCEPT !.acq.step = "error", !.acq.notified = FALSE])

watchPositionError(w) ==
  reject(clearWatch([w EXCEPT !.acq.step = "error", !.acq.notified = FALSE]))

\* the callback of the setTimeout fallback (watchId is never reset and a watch
\* id is greater than zero, so its test always passes)
timeoutFallback_noReject(w) ==
  LET w1 == clearWatch([w EXCEPT !.acq.timer = FALSE, !.acq.step = "timeout",
                                 !.acq.notified = FALSE])
  IN IF w1.acq.bestPosition # NoFix
       THEN resolve(handlePosition(w1, w1.acq.bestPosition))
       ELSE IF w1.acq.cached # NoFix
         THEN resolve(w1)
         ELSE w1

timeoutFallback(w) ==
  LET w1 == clearWatch([w EXCEPT !.acq.timer = FALSE, !.acq.step = "timeout",
                                 !.acq.notified = FALSE])
  IN IF w1.acq.bestPosition # NoFix
       THEN resolve(handlePosition(w1, w1.acq.bestPosition))
       ELSE IF w1.acq.cached # NoFix
         THEN resolve(w1)
         ELSE reject(w1)

ForceUpdateCall ==
  \E supported \in BOOLEAN :
    /\ acq.pc = "idle"
    /\ Becomes(forceUpdate(World, supported))

PositionArrive ==
  \E acc \in Accuracies :
    /\ acq.watching
    /\ Becomes(watchPositionSuccess(World, acc))

PositionError ==
  /\ acq.watching
  /\ Becomes(watchPositionError(World))

TimeoutFire ==
  /\ acq.timer /\ acq.elapsed >= HardTimeoutMs
  /\ Becomes(timeoutFallback(World))

\* time passes; a due timer callback runs before the last instant
ClockAdvance ==
  \E t \in Instants :
    /\ acq.pc # "idle"
    /\ t > acq.elapsed /\ \A u \in Instants : u > acq.elapsed => t <= u
    /\ acq.timer => t < LastInstant
    /\ Becomes([World EXCEPT !.acq.elapsed = t, !.acq.step = "tick",
                             !.acq.notified = FALSE])

NextLocate ==
  \/ ForceUpdateCall
  \/ PositionArrive
  \/ PositionError
  \/ TimeoutFire
  \/ ClockAdvance

SpecLocate == Init /\ [][NextLocate]_vars

\* ---- LocationService.getLocationOnce: the call and its callbacks ------------
GoodEnoughAccuracy == 100
EnsureLockMs       == 40000
SafetyFallbackMs   == 30000

\* the instants at which anything happens during one getLocationOnce() call
OnceInstants == {0, 2000, 30000, 30001, 40001, 40002}
LastOnceInstant == CHOOSE t \in OnceInstants : \A u \in OnceInstants : u <= t

\* LocationService.handleError: reports to the error callback, keeps the fix
LocationService_handleError(w) ==
  [w EXCEPT !.once.errors = IF @ < 2 THEN @ + 1 ELSE @]

getLocationOnce(w, supported) ==
  LET w1 == [w EXCEPT !.once.step = "call", !.acq.notified = FALSE]
  IN IF ~supported
       THEN LocationService_handleError([w1 EXCEPT !.once.pc = "unsupported"])
       ELSE [w1 EXCEPT !.once.pc = "waiting", !.once.watching = TRUE,
                       !.once.timer = TRUE]

\* the success callback of its watchPosition
onceSuccess(w, acc) ==
  LET elapsed  == w.once.elapsed
      position == Reading(acc, elapsed)
      w1 == [w EXCEPT !.once.step = "reading",
                      !.acq.notified = FALSE,
                      !.once.last = position,
                      !.once.arrived = TRUE]
  IN IF acc < GoodEnoughAccuracy \/ elapsed > EnsureLockMs
       THEN handlePosition([w1 EXCEPT !.once.watching = FALSE], position)
       ELSE w1

\* the error callback of its watchPosition
onceError(w) ==
  LocationService_handleError(
    [w EXCEPT !.once.step = "error",
              !.acq.notified = FALSE,
              !.once.watching = FALSE])

\* the callback of its setTimeout
onceTimeout(w) ==
  LET w1 == [w EXCEPT !.once.step = "timeout",
                      !.acq.notified = FALSE,
                      !.once.pc = "over",
                      !.once.timer = FALSE, !.once.watching = FALSE]
  IN IF w1.acq.cached = NoFix
       THEN [w1 EXCEPT !.once.requests = @ + 1, !.once.oneShot = TRUE]
       ELSE w1

\* the callbacks of the getCurrentPosition request
oneShotSuccess(w, acc) ==
  handlePosition([w EXCEPT !.once.step = "oneshot",
                           !.acq.notified = FALSE,
                           !.once.oneShot = FALSE],
                 Reading(acc, w.once.elapsed))

oneShotError(w) ==
  LocationService_handleError(
    [w EXCEPT !.once.step = "oneshotError",
              !.acq.notified = FALSE,
              !.once.oneShot = FALSE])

GetLocationOnceCall ==
  \E supported \in BOOLEAN :
    /\ once.pc = "idle"
    /\ Becomes(getLocationOnce(World, supported))

OncePosition ==
  \E acc \in Accuracies :
    /\ once.watching
    /\ Becomes(onceSuccess(World, acc))

OnceError ==
  /\ once.watching
  /\ Becomes(onceError(World))

OnceTimeout ==
  /\ once.timer /\ once.elapsed >= SafetyFallbackMs
  /\ Becomes(onceTimeout(World))

OneShotPosition ==
  \E acc \in Accuracies :
    /\ once.oneShot
    /\ Becomes(oneShotSuccess(World, acc))

OneShotError ==
  /\ once.oneShot
  /\ Becomes(oneShotError(World))

\* time passes; a due timer callback runs before the last instant
OnceClock ==
  \E t \in OnceInstants :
    /\ once.pc \in {"waiting", "over"}
    /\ t > once.elapsed /\ \A u \in OnceInstants : u > once.elapsed => t <= u
    /\ once.timer => t < LastOnceInstant
    /\ Becomes([World EXCEPT !.once.elapsed = t, !.once.step = "tick",
                             !.acq.notified = FALSE])

NextOnce ==
  \/ GetLocationOnceCall
  \/ OncePosition
  \/ OnceError
  \/ OnceTimeout
  \/ OneShotPosition
  \/ OneShotError
  \/ OnceClock

SpecOnce == Init /\ [][NextOnce]_vars

\* ---- RateLimiter calls ------------------------------------------------------
InWindow(log, t) == SelectSeq(log, LAMBDA e : e.timestamp > t - windowMs)

CheckLimitCall ==
  \E action \in LimitActions :
    /\ Becomes([World EXCEPT
                  !.limiter = [checkLimit(@, action) EXCEPT
                                 !.log = InWindow(@, limiter.now)]])

RecordAttemptCall ==
  \E action \in LimitActions :
    /\ Len(limiter.log) < MaxRecorded
    /\ Becomes([World EXCEPT
                  !.limiter = [recordAttempt(@, action) EXCEPT
                                 !.log = Append(@, [action |-> action,
                                                    timestamp |-> limiter.now])]])

ResetCall ==
  \E action \in LimitActions :
    /\ Becomes([World EXCEPT
                  !.limiter = [reset(@, action) EXCEPT
                                 !.log = SelectSeq(@, LAMBDA e :
                                                        e.action # action)]])

LimiterClock ==
  /\ limiter.now < FirstInstant + MaxSteps * ClockStep
  /\ Becomes([World EXCEPT !.limiter.now = @ + ClockStep,
                           !.limiter.res = NoVerdict])

NextLimit ==
  \/ CheckLimitCall
  \/ RecordAttemptCall
  \/ ResetCall
  \/ LimiterClock

\* the limiter shares nothing with the services: one page load is enough
InitLimit ==
  /\ Init
  /\ ~netOnline /\ ~currentLocation /\ storedLast = 0

SpecLimit == InitLimit /\ [][NextLimit]_vars

\* ---- properties ---------------------------------------------------------------
InFlight == Count(cycles)

\* the handler that ran resumed a send cycle which no stop() has touched: the
\* scheduler was Running, in the session that began the cycle
ResumedRunning == ev.cyc.pc # "idle" /\ ~ev.cyc.stopped

\* C1: when a heartbeat result whose ok is not true is handled in a Running
\* scheduler, the scheduler is Stopped afterwards with no timer armed, the
\* callback given to start() has been invoked exactly once, and no pulse is
\* transmitted under the id of a session that is not the current one.
C1_NonOkTeardown ==
  /\ (ResumedRunning /\ ev.resp.body = "object" /\ ev.resp.ok # "true")
       => (~isActive /\ ~timeoutId /\ timers = <<>> /\ ev.cb = 1)
  /\ \A k \in DOMAIN ev.tx : ev.tx[k].sessionId \in {0, ev.tx[k].current}

\* C2: when a heartbeat result with login_status false is handled in a Running
\* scheduler, whatever its ok, the scheduler is Stopped afterwards with no timer
\* armed, the callback has been invoked exactly once and no success was
\* recorded.
C2_LoginStatusTeardown ==
  (ResumedRunning /\ ev.resp.login_status = "false")
    => (~isActive /\ ~timeoutId /\ timers = <<>> /\ ev.cb = 1 /\ ev.succ = 0)

\* C3: at most one send cycle is in flight at any time.
C3_OneCycleInFlight == InFlight <= 1

\* C4: every call of AuthService.sendHeartbeat is made while the scheduler is
\* active, so none is made between a stop() and the next start().
C4_NoPulseAfterStop == \A k \in DOMAIN ev.tx : ev.tx[k].active

\* C5: a send cycle that was in flight when stop() was called neither arms the
\* timer nor invokes the callback when it is resumed.
C5_StoppedCycleInert ==
  (ev.cyc.pc # "idle" /\ ev.cyc.stopped) => (~ev.armed /\ ev.cb = 0)

\* C6: once both a heartbeat response and another call's response have been
\* classified Invalid in a session, the host has shown one logout notification
\* and torn the session down once.
C6_SingleLogout ==
  ({"heartbeat", "api"} \subseteq verdicts)
    => (notifications = 1 /\ teardowns = 1)

\* C7: a response whose body has login_status false makes the interceptor
\* dispatch exactly one forceLogout event.
C7_OneEventPerInvalid ==
  (ev.call # "none" /\ ev.http.kind = "response"
     /\ ev.http.data.login_status = "false")
    => Len(ev.dispatched) = 1

\* C8: a call other than the heartbeat that got no response dispatches no
\* logout event, starts no logout, and does not remove the persisted session.
C8_UnknownNeverTearsDown ==
  (ev.http.kind = "noresponse" /\ ev.call \in {"verify", "extend", "api", "login"})
    => (ev.dispatched = <<>> /\ ev.logouts = 0 /\ ~ev.removed)

\* C9: the interceptor dispatches a forceLogout event exactly when the body has
\* login_status false or force_logout true or the status is 401, 403, 419 or
\* 440; with no response it dispatches none.
C9_ClassifierIff ==
  ev.call # "none" =>
    /\ (ev.dispatched # <<>>) <=>
          \/ ev.http.data.login_status = "false"
          \/ ev.http.data.force_logout = "true"
          \/ ev.http.status \in {401, 403, 419, 440}
    /\ ev.http.kind = "noresponse" => ev.dispatched = <<>>

C9_Witness ==
  /\ ev.call # "none" /\ ev.http.status = 419
  /\ ev.http.data.login_status = "zero" /\ ev.http.data.force_logout = "one"
  /\ ev.dispatched = <<"api_interceptor_error_force">>

\* C10: the offline queue never holds more than 5 pulses, and a send cycle that
\* queues its pulse appends it, dropping the oldest pulse when 5 were held.
C10_QueueBounded ==
  /\ [](Len(queuedHeartbeats) <= 5)
  /\ [][(ev'.cyc.pc = "locating" /\ ev'.loc # "none" /\ ~isOnline)
          => queuedHeartbeats' =
               (IF Len(queuedHeartbeats) = 5 THEN Tail(queuedHeartbeats)
                                             ELSE queuedHeartbeats)
               \o <<[seq |-> pulseSeq + 1, sessionId |-> sessionId,
                     deviceId |-> deviceId]>>]_vars

C10_Witness ==
  /\ Len(queuedHeartbeats) = 5 /\ pulseSeq = 6
  /\ queuedHeartbeats[1].seq = 2 /\ queuedHeartbeats[5].seq = 6

\* the transmissions of queued pulses among those of the last handler run
IsQueuedTx(t) == t.seq # 0
QueuedTx(e) == SelectSeq(e.tx, IsQueuedTx)

\* C11: a handler run retransmits at most one queued pulse, the most recently
\* queued one; the handler of the restored connection retransmits it whenever
\* pulses are queued; and when a flush has completed, with any response, the
\* queue is empty.
C11_FlushLatestOnly ==
  [][LET q == queuedHeartbeats
         latest == q[Len(q)]
         sent == QueuedTx(ev')
     IN /\ Len(sent) <= 1
        /\ \A k \in DOMAIN sent :
              /\ q # <<>>
              /\ sent[k].seq = latest.seq
              /\ sent[k].sessionId = latest.sessionId
              /\ sent[k].deviceId = latest.deviceId
        /\ (settleTimers' < settleTimers /\ q # <<>>) => Len(sent) = 1
        /\ flushes' < flushes => queuedHeartbeats' = <<>>]_vars

C11_Witness ==
  /\ isOnline /\ flushes > 0 /\ Len(queuedHeartbeats) >= 3
  /\ Len(QueuedTx(ev)) = 1
  /\ QueuedTx(ev)[1].seq = queuedHeartbeats[Len(queuedHeartbeats)].seq

\* C12: from every reachable state, stop() followed by stop() leaves the state
\* that one stop() leaves, and after stop() the session id, the device id and
\* the queue are cleared and no scheduler timer is pending.
C12_StopIdempotent ==
  LET w1 == stop(World)
  IN /\ stop(w1) = w1
     /\ w1.sessionId = 0 /\ w1.deviceId = 0
     /\ ~w1.timeoutId /\ w1.timers = <<>>
     /\ w1.queuedHeartbeats = <<>>

Settled == acq.pc \in {"resolved", "rejected"}

\* C13: a forceUpdate() promise that is still pending has its fallback timer
\* ahead of it and the clock has not passed the instant after the deadline;
\* so every acquisition is settled once that timer has run, whatever readings
\* and errors the platform produced.
C13_AcquisitionTerminates ==
  /\ acq.pc = "pending" => (acq.timer /\ acq.elapsed < LastInstant)
  /\ acq.elapsed = LastInstant => Settled

C13_Witness ==
  /\ acq.step = "timeout" /\ acq.pc = "rejected"
  /\ acq.bestPosition = NoFix /\ acq.elapsed >= HardTimeoutMs

\* the reading the last callback was given was accepted: the promise resolved
\* with it
Accepted == acq.pc = "resolved" /\ acq.fix = acq.last

\* C14: a reading with accuracy below 30 m is accepted at whatever elapsed time
\* it arrives: the promise resolves with it, it is the cached fix, and the
\* subscription is closed.
C14_ExcellentAcceptedAtOnce ==
  (acq.step = "reading" /\ acq.last.acc < 30)
    => (Accepted /\ acq.cached = acq.last /\ ~acq.watching)

C14_Witness ==
  /\ acq.step = "reading" /\ acq.last = Reading(29, 2000)
  /\ acq.fix = Reading(29, 2000) /\ acq.bestPosition = Reading(29, 2000)

\* C15: a reading with accuracy in [30, 50) is accepted exactly if it arrives
\* at an elapsed time of at least 10 s, and one with accuracy in [50, 100)
\* exactly if it arrives at an elapsed time of at least 30 s.
C15_TierBoundaries ==
  acq.step = "reading" =>
    /\ (30 <= acq.last.acc /\ acq.last.acc < 50)
          => (Accepted <=> acq.last.at >= 10000)
    /\ (50 <= acq.last.acc /\ acq.last.acc < 100)
          => (Accepted <=> acq.last.at >= 30000)

\* C16: when the deadline has passed and no tier accepted a reading, the promise
\* is resolved with the best reading of this acquisition, and if there was
\* no reading it is rejected.
C16_DeadlineBestOrTimeout ==
  (acq.by = "timeout" \/ (acq.by = "reading" /\ acq.last.acc >= 100))
    => IF acq.bestPosition # NoFix
         THEN acq.pc = "resolved" /\ acq.fix = acq.bestPosition
         ELSE acq.pc = "rejected"

\* C17: a settled acquisition has no open subscription, and none was open at
\* the moment its promise was resolved or rejected.
C17_SubscriptionCleared ==
  Settled => (~acq.watching /\ ~acq.leak)

C17_Witness ==
  /\ acq.step = "error" /\ acq.pc = "rejected" /\ acq.timer
  /\ acq.bestPosition # NoFix

\* C18: when a send cycle of the running scheduler has ended and armed the
\* timer, that timer is the only one; if a success was recorded since start()
\* the next heartbeat is planned for that success + interval (at once when
\* that instant has passed), and otherwise for now + interval.
C18_DriftCorrected ==
  (ResumedRunning /\ ev.armed) =>
    /\ timeoutId /\ Len(timers) = 1
    /\ IF hist.successAt # 0
         THEN /\ nextScheduledAt = hist.successAt + Interval
              /\ timers[1] = Max(now, hist.successAt + Interval)
         ELSE /\ nextScheduledAt = now + Interval
              /\ timers[1] = now + Interval

\* C19: the first timer the scheduler arms after a session restore is due at
\* the restore instant + interval - the elapsed time the server reported.
C19_RestoreUsesServerElapsed ==
  (ev.armed /\ hist.arms = 1 /\ hist.since # 0)
    => timers = <<hist.restoredAt + Interval - hist.since>>

\* C20: start() called on a running scheduler changes nothing: the session id,
\* the device id, the failure callback, the timer, the cycles in flight, the
\* queue and the listeners are as before, and the call transmits nothing,
\* begins no cycle and invokes no callback.
C20_StartWhileRunningNoOp ==
  [][(ev'.op = "start" /\ isActive) =>
       /\ hbVars' = hbVars
       /\ timers' = timers /\ settleTimers' = settleTimers
       /\ listening' = listening
       /\ cycles' = cycles /\ flushes' = flushes
       /\ ev'.tx = <<>> /\ ev'.cb = 0 /\ ~ev'.armed]_vars

C20_Witness ==
  /\ ev.op = "start" /\ isActive
  /\ timeoutId /\ timers # <<>> /\ queuedHeartbeats # <<>>
  /\ sessionId # 0 /\ nextSession = sessionId + 1

\* the attempts recorded for the action of the last call that are inside the
\* window and were not reset
Recorded ==
  SelectSeq(limiter.log,
    LAMBDA e : e.action = limiter.res.action
               /\ e.timestamp > limiter.now - windowMs)

\* C21: checkLimit(a) refuses exactly when 5 or more attempts recorded for a
\* lie inside the 15-minute window and were not reset; a refusal reports no
\* remaining attempts and a reset time of the oldest such attempt + 15 min.
C21_LimitPerAction ==
  limiter.res.op = "check" =>
    IF Len(Recorded) >= maxAttempts
      THEN /\ ~limiter.res.allowed
           /\ limiter.res.remainingAttempts = 0
           /\ limiter.res.resetTime = Recorded[1].timestamp + windowMs
      ELSE limiter.res.allowed

\* C22: sendHeartbeat() called while a send is in flight skips the cycle: the
\* in-flight flag stays set, the pending timer and the recorded next due time
\* are as before, the queue and the last-success timestamp are untouched, and
\* no acquisition and no transmission is started.
C22_SkipWhileInFlight ==
  (Initialized(World) /\ isSending) =>
    LET w == sendHeartbeat(Begin)
    IN /\ w.isSending
       /\ w.timeoutId = timeoutId /\ w.timers = timers
       /\ w.nextScheduledAt = nextScheduledAt
       /\ w.queuedHeartbeats = queuedHeartbeats
       /\ w.lastHeartbeat = lastHeartbeat
       /\ w.cycles = cycles /\ w.ev.tx = <<>>

C25_StoppedIsInert ==
  [][(/\ ~isActive
      /\ ev'.op # "start" /\ ev'.cyc.pc = "idle" /\ flushes' >= flushes)
       => /\ hbVars' = hbVars
          /\ cycles' = cycles /\ flushes' = flushes
          /\ ev'.tx = <<>> /\ ev'.cb = 0]_vars

\* C26: the handler of an online event transmits nothing and begins nothing: it
\* only arms the settle timeout. When that timeout runs in the running
\* scheduler it first issues the request of the newest queued pulse (if any)
\* and then begins the fresh heartbeat cycle (unless a send is in flight),
\* whose own request is issued in a later run: no fresh pulse is sent by the
\* timeout's run itself.
C26_OnlineOrder ==
  [][/\ (~netOnline /\ netOnline')
          => /\ ev'.tx = <<>> /\ cycles' = cycles /\ flushes' = flushes
             /\ listening => (isOnline' /\ settleTimers' = settleTimers + 1)
     /\ (settleTimers' < settleTimers /\ isActive)
          => /\ \A k \in DOMAIN ev'.tx : ev'.tx[k].seq # 0
             /\ IF queuedHeartbeats # <<>>
                  THEN /\ Len(ev'.tx) = 1
                       /\ ev'.tx[1].seq =
                            queuedHeartbeats[Len(queuedHeartbeats)].seq
                       /\ flushes' = flushes + 1
                  ELSE ev'.tx = <<>> /\ flushes' = flushes
             /\ cycles' = IF isSending
                            THEN cycles
                            ELSE [cycles EXCEPT
                                    ![Kind("locating", FALSE)] = @ + 1]]_vars

C26_Witness ==
  /\ ev.op = "settle" /\ isActive /\ isOnline
  /\ Len(ev.tx) = 1 /\ Len(queuedHeartbeats) >= 2
  /\ ev.tx[1].seq = queuedHeartbeats[Len(queuedHeartbeats)].seq
  /\ flushes = 1 /\ cycles[Kind("locating", FALSE)] = 1

\* the armed timer lies beyond the last instant of the clock
Horizon == now = MaxNow /\ \A k \in DOMAIN timers : timers[k] > now

\* the bounds of the model leave no room for one more cycle or pulse
Saturated == Pending(World) >= MaxInFlight \/ pulseSeq >= MaxPulses

\* C27: start() on a stopped scheduler begins one heartbeat cycle at once;
\* while the scheduler is running and no cycle of it is in flight a timer is
\* armed; and an armed timer of the running scheduler leads to its callback
\* running (the next cycle) unless the scheduler is stopped first (or the
\* clock or the room for suspended calls of the model ends).
C27_LoopLiveness ==
  /\ [][(ev'.op = "start" /\ ~isActive)
          => (isSending' /\ cycles'[Kind("locating", FALSE)] = 1)]_vars
  /\ []((isActive /\ cycles[Kind("locating", FALSE)] = 0
                  /\ cycles[Kind("sending", FALSE)] = 0) => timers # <<>>)
  /\ (isActive /\ ev.armed)
       ~> (ev.op = "timer" \/ ~isActive \/ Horizon \/ Saturated)

C29_SingleTimer ==
  /\ Len(timers) <= 1
  /\ timeoutId <=> timers # <<>>
  /\ ~isActive => timers = <<>>

\* a timer was armed in place of one that was pending
C29_Witness ==
  ev.cancelled /\ ev.armed /\ Len(timers) = 1 /\ isActive

\* C30: getLocationOnce accepts the first reading with accuracy below 100 m;
\* it makes at most one getCurrentPosition request, and only when no reading
\* at all arrived during the wait; when readings did arrive, no request is
\* made at the deadline and the latest of them is the fix in use.
C30_FallbackOnlyWithoutReading ==
  /\ (once.step = "reading" /\ once.last.acc < GoodEnoughAccuracy)
       => (acq.cached = once.last /\ ~once.watching)
  /\ once.requests <= 1
  /\ once.requests > 0 => ~once.arrived
  /\ (once.step = "timeout" /\ once.arrived)
       => (once.requests = 0 /\ acq.cached = once.last)

\* C31: when forceUpdate resolves after readings were delivered, the fix it
\* resolves with is at least as accurate as every reading delivered before
\* the resolution (bestPosition is the most accurate of them).
C31_ResolvedIsBest ==
  (acq.pc = "resolved" /\ acq.bestPosition # NoFix)
    => (acq.fix.from = "reading" /\ acq.fix.acc <= acq.bestPosition.acc)

\* C32: the deadline timer of a forceUpdate call that has already settled
\* does nothing when it expires: it leaves the cached fix as it is and does
\* not invoke the location-update callback.
C32_SettledCallIsQuiet ==
  [][(Settled /\ acq.timer /\ ~acq'.timer)
       => (acq'.cached = acq.cached /\ ~acq'.notified)]_vars

\* C33: a forceUpdate call that was given at least one reading does not
\* fail: its promise is rejected only when no best reading is held.
C33_NoFailureWithReading ==
  acq.pc = "rejected" => acq.bestPosition = NoFix

\* C34: when the timer callback has begun a send cycle and that cycle ends by
\* queueing its pulse (the scheduler believes it is offline), the timer armed
\* for the next cycle is due no sooner than one interval after the cycle
\* began: self-scheduled cycles are at least one interval apart.
TimerBeganCycle ==
  /\ ev.op = "timer" /\ ~ev.armed /\ isActive /\ isSending
  /\ Count(cycles) = 1 /\ cycles[Kind("locating", FALSE)] = 1

EndedInEnqueue ==
  /\ ev.cyc = Kind("locating", FALSE) /\ ev.loc # "none" /\ ev.tx = <<>>
  /\ pulseSeq > 0 /\ ev.armed

C34_NoZeroDelayLoop ==
  [][(TimerBeganCycle /\ EndedInEnqueue' /\ pulseSeq' = pulseSeq + 1)
       => (Len(timers') = 1 /\ timers'[1] >= now + Interval)]_vars

\* C35: a queued pulse is transmitted at most once: a pulse that the previous
\* handler run handed to the transport, and whose flush is still waiting for
\* its response, is not transmitted again by the next handler run.
SamePulse(a, b) ==
  a.seq = b.seq /\ a.sessionId = b.sessionId /\ a.deviceId = b.deviceId

C35_QueuedPulseSentOnce ==
  [][flushes > 0 =>
       \A i \in DOMAIN QueuedTx(ev), k \in DOMAIN QueuedTx(ev') :
         ~SamePulse(QueuedTx(ev)[i], QueuedTx(ev')[k])]_vars

\* C36: a send cycle that was in flight when stop() was called and is resumed
\* after start() began a new session leaves that session alone: it transmits
\* nothing under the new session's id, the scheduler stays running, no
\* heartbeat failure is signalled, no success is recorded and the timer is
\* not re-armed.
C36_LeftoverCycleHarmless ==
  [][(isActive /\ ev'.cyc.pc # "idle" /\ ev'.cyc.stopped) =>
       /\ \A k \in DOMAIN ev'.tx : ev'.tx[k].sessionId # sessionId
       /\ isActive'
       /\ ev'.fail = 0 /\ ev'.cb = 0
       /\ ev'.succ = 0 /\ lastHeartbeat' = lastHeartbeat
       /\ ~ev'.armed /\ timers' = timers]_vars

\* C37: while the scheduler is running its belief about connectivity is the
\* state of the network, whatever stop(), connectivity changes and start()
\* came before; so a send cycle of the running scheduler that has a location
\* while the network is up transmits its pulse and does not queue it.
C37_BeliefMatchesNetwork ==
  /\ [](isActive => (isOnline <=> netOnline))
  /\ [][(isActive /\ netOnline /\ ev'.cyc = Kind("locating", FALSE)
          /\ ev'.loc # "none")
         => (ev'.tx # <<>> /\ queuedHeartbeats' = queuedHeartbeats)]_vars

\* C38: whatever the server answers to the logout request made during a
\* teardown, handling that answer dispatches no forceLogout event and starts
\* no further handleAutoLogout.
C38_LogoutRaisesNoLogout ==
  ev.call = "logout" => (ev.dispatched = <<>> /\ ev.logouts = 0)

\* C39: while no session is active (nobody is logged in, the scheduler is
\* stopped and no teardown is under way) the answer to an API call, whatever
\* it is, dispatches no forceLogout event, starts no handleAutoLogout, shows
\* no logout notification and performs no teardown.
NoSessionActive ==
  ~isLoggedIn /\ ~isActive /\ pendingLogouts = 0 /\ pendingClears = 0

C39_NoLogoutWithoutSession ==
  [][(NoSessionActive /\ ev'.call # "none")
       => /\ ev'.dispatched = <<>> /\ ev'.logouts = 0
          /\ pendingClears' = 0 /\ notifications' <= notifications]_vars

\* C40: checkLimit(a) leaves the attempts held for every other action as
\* they were, and the count it reports for a is the number of attempts
\* recorded for a inside the window and not removed by reset(a).
AttemptsOf(l, b) ==
  SelectSeq(l.attempts,
    LAMBDA e : e.action = b /\ e.timestamp > l.now - windowMs)

C40_CheckLimitFrame ==
  /\ [][limiter'.res.op = "check" =>
          \A b \in LimitActions \ {limiter'.res.action} :
            AttemptsOf(limiter', b) = AttemptsOf(limiter, b)]_vars
  /\ [](limiter.res.op = "check" =>
          limiter.res.remainingAttempts
            = Max(0, maxAttempts - Len(Recorded)))

====
